---- MODULE Spec2Model ----
(***************************************************************************)
(* Model of outlines/text/generate/sequence.py: the batched sequence       *)
(* generation loop Sequence.__call__ (with Sequence.step and               *)
(* Sequence.expand_attention_mask) and the categorical sampler             *)
(* vectorized_random_choice.                                               *)
(*                                                                         *)
(* Tensors are sequences: a matrix is a sequence of rows, a row a sequence *)
(* of numbers.  Source indices are 0-based, sequence positions 1-based.    *)
(* Real numbers are exact rationals: a probability row is a record         *)
(* [num, den] (entry i is num[i]/den) and a uniform draw is u/Grid with    *)
(* u in 0..Grid-1, so every draw lies in [0,1) and 0 is a possible draw.   *)
(***************************************************************************)
EXTENDS Integers, Sequences, FiniteSets, TLC

(***************************************************************************)
(* Bounds of the model.                                                    *)
(***************************************************************************)
MaxPrompts == 2      \* prompts per invocation: 1..MaxPrompts
MaxSamples == 3      \* samples per prompt: 1..MaxSamples
MaxBatch == 4        \* samples * prompts <= MaxBatch
MaxCells == 6        \* cap on generated cells: batch_size * columns <= MaxCells
MaxTokens == 2       \* max_tokens is None or in 0..MaxTokens
Grid == 3            \* uniform draws are u/Grid, u in 0..Grid-1
MaxVocab == 3        \* sampler inputs: last axis 1..MaxVocab (SpecChoice)
MaxRows == 2         \* sampler inputs: 1..MaxRows distributions (SpecChoice)
MaxDraws == 2        \* sampler inputs: samples in 1..MaxDraws (SpecChoice)

(***************************************************************************)
(* The tokenizer collaborator (outlines.models.tokenizer, not in src/):    *)
(* a vocabulary of one-character tokens, token id = position - 1.          *)
(***************************************************************************)
Vocabulary == <<"a", "b">>
VocabSize == Len(Vocabulary)
TokenIds == 0..(VocabSize - 1)

\* model.tokenizer.pad_token_id, copied by Sequence.__init__
PadTokenId == VocabSize - 1

\* Python None where an integer is expected (max_tokens): no count equals it
None == 0 - 1

(***************************************************************************)
(* Small helpers on sequences.                                             *)
(***************************************************************************)
RECURSIVE SumTo(_, _)
SumTo(s, i) == IF i = 0 THEN 0 ELSE SumTo(s, i - 1) + s[i]

Sum(s) == SumTo(s, Len(s))

RECURSIVE Prod(_)
\* math.prod of a shape tuple; the empty product is 1
Prod(shape) == IF shape = <<>> THEN 1 ELSE Head(shape) * Prod(Tail(shape))

Max(S) == CHOOSE x \in S : \A y \in S : y <= x

\* ~mask
Not(mask) == [i \in 1..Len(mask) |-> ~mask[i]]

\* torch.all(mask)
All(mask) == \A i \in 1..Len(mask) : mask[i]

\* number of true entries among the first i entries of mask
RECURSIVE CountTo(_, _)
CountTo(mask, i) ==
  IF i = 0 THEN 0 ELSE CountTo(mask, i - 1) + (IF mask[i] THEN 1 ELSE 0)

Count(mask) == CountTo(mask, Len(mask))

\* x[mask] restricted to the first i rows of x
RECURSIVE MaskSelectTo(_, _, _)
MaskSelectTo(x, mask, i) ==
  IF i = 0 THEN <<>>
  ELSE IF mask[i] THEN Append(MaskSelectTo(x, mask, i - 1), x[i])
       ELSE MaskSelectTo(x, mask, i - 1)

\* faulty variant of MaskSelect: as many rows as the mask selects, taken from the top
MaskSelectLeading(x, mask) == SubSeq(x, 1, Count(mask))

\* x[mask]: boolean-mask indexing keeps the selected rows in ascending order
MaskSelect(x, mask) == MaskSelectTo(x, mask, Len(mask))

\* x[mask] = vals: the k-th selected row receives vals[k]
MaskAssign(x, mask, vals) ==
  [i \in 1..Len(x) |-> IF mask[i] THEN vals[CountTo(mask, i)] ELSE x[i]]

\* x[:, n:] of a matrix
ColumnsFrom(x, n) ==
  [i \in 1..Len(x) |-> SubSeq(x[i], n + 1, Len(x[i]))]

\* torch.concatenate([x, col], axis=-1) for a one-column matrix col
ConcatColumn(x, col) ==
  [i \in 1..Len(x) |-> x[i] \o col[i]]

(***************************************************************************)
(* Tokenizer collaborator: encode left-pads the prompts to a rectangle and *)
(* returns the mask of real positions; decode maps every row of token ids  *)
(* to a string (a sequence of characters), padding included.               *)
(***************************************************************************)
TokenOf(c) == (CHOOSE i \in 1..VocabSize : Vocabulary[i] = c) - 1

Encode(prompts) ==
  LET width == Max({Len(prompts[i]) : i \in 1..Len(prompts)})
      padn(i) == width - Len(prompts[i])
  IN [token_ids |->
        [i \in 1..Len(prompts) |->
           [j \in 1..width |->
              IF j <= padn(i) THEN PadTokenId
              ELSE TokenOf(prompts[i][j - padn(i)])]],
      attention_mask |->
        [i \in 1..Len(prompts) |->
           [j \in 1..width |-> IF j <= padn(i) THEN 0 ELSE 1]]]

Decode(rows) ==
  [i \in 1..Len(rows) |->
     [j \in 1..Len(rows[i]) |-> Vocabulary[rows[i][j] + 1]]]

\* the prompts of an invocation: prompt i has i characters
PromptText(i) == [j \in 1..i |-> Vocabulary[((i + j + 1) % VocabSize) + 1]]

Prompts(n) == [i \in 1..n |-> PromptText(i)]

(***************************************************************************)
(* The random stream.  A generator is the sequence of uniform draws it     *)
(* will still produce; torch.rand takes them from the front.  A seed       *)
(* fixes the whole stream.                                                 *)
(***************************************************************************)
StreamLen == MaxCells + MaxBatch

Seeds == 0..(Grid - 1)

\* torch.Generator seeded with `seed`
GeneratorOf(seed) == [k \in 1..StreamLen |-> (k + seed) % Grid]

\* rng argument absent
NoRng == <<>>

\* torch.rand(shape, generator=rng) with n = number of entries of shape
Rand(gen, n) ==
  [draws |-> SubSeq(gen, 1, n), rng |-> SubSeq(gen, n + 1, Len(gen))]

(***************************************************************************)
(* vectorized_random_choice                                                *)
(***************************************************************************)
\* faulty variant of Cumsum: the scan leaves out the entry itself
CumsumExclusive(row) == [i \in 1..Len(row) |-> SumTo(row, i - 1)]

\* p.cumsum(axis=-1) of one row of numerators
Cumsum(row) == [i \in 1..Len(row) |-> SumTo(row, i)]

\* (cumsum < rand).sum(axis=-1) for one distribution and one draw u/Grid
CountBelow(cumsum, den, u) ==
  Cardinality({i \in 1..Len(cumsum) : cumsum[i] * Grid < u * den})

\* returns idx of shape (samples, Len(p)) and the advanced generator
vectorized_random_choice(gen, p, n) ==
  LET k == Len(p)
      r == Rand(gen, n * k)
      rand == [s \in 1..n |-> [j \in 1..k |-> r.draws[(s - 1) * k + j]]]
  IN [idx |->
        [s \in 1..n |->
           [j \in 1..k |-> CountBelow(Cumsum(p[j].num), p[j].den, rand[s][j])]],
      rng |-> r.rng]

(***************************************************************************)
(* Model collaborator and Sequence.step                                    *)
(***************************************************************************)
\* a logit of minus infinity (a masked token)
NegInf == 0 - 1

LogitValues == {NegInf, 0}

\* rows of next-token logits; a row of only -inf has no softmax
LogitRows ==
  {r \in [1..VocabSize -> LogitValues] : \E i \in 1..VocabSize : r[i] # NegInf}

\* exponential of a logit, to base 2 so that every weight is an integer
Exp2(l) == IF l = NegInf THEN 0 ELSE 2 ^ l

\* torch.nn.functional.softmax(row, dim=-1)
Softmax(row) ==
  LET w == [i \in 1..Len(row) |-> Exp2(row[i])]
  IN [num |-> w, den |-> Sum(w)]

\* incremental state: absent (None or an empty tuple), or one row per input row
NoState == [present |-> FALSE, rows |-> <<>>]

ModelKinds == {"kv", "nokv", "misaligned"}

\* model.forward(token_ids, attention_mask, past_key_values): the logits are
\* the model's choice; the state it returns covers exactly the rows it was given
Forward(kind, tok, mask, past, logits) ==
  [logits |-> logits,
   past_key_values |->
     IF kind = "nokv" THEN NoState ELSE [present |-> TRUE, rows |-> tok]]

\* row count of the logits a model of this kind returns for n input rows
LogitRowCount(kind, n) == IF kind = "misaligned" THEN n + 1 ELSE n

\* Sequence.create_proposal
create_proposal(generated_token_ids, logits) == logits

\* faulty variant of SameLeadingShape: the assertion is not made
SameLeadingShapeUnchecked(nprobs, ntok) == TRUE

\* assert probs.shape[:-1] == token_ids.shape[:-1], on the row counts
SameLeadingShape(nprobs, ntok) == nprobs = ntok

\* Sequence.step; ok is the assertion on the leading shapes
step(gen, npt, tok, mask, n, past, fwd) ==
  LET probs1 == create_proposal(ColumnsFrom(tok, npt), fwd.logits)
      probs == [i \in 1..Len(probs1) |-> Softmax(probs1[i])]
      ok == SameLeadingShape(Len(probs), Len(tok))
      ch == vectorized_random_choice(gen, probs, n)
  IN [ok |-> ok,
      next_token_ids |->
        IF ok THEN [s \in 1..n |-> [j \in 1..Len(probs) |-> <<ch.idx[s][j]>>]]
        ELSE <<>>,
      rng |-> IF ok THEN ch.rng ELSE gen,
      past_key_values |-> fwd.past_key_values]

\* faulty variant of expand_attention_mask: the mask is returned as it came
expand_attention_mask_same(mask) == mask

\* faulty variant of expand_attention_mask: the new column repeats the first one
expand_attention_mask_first(mask) ==
  ConcatColumn(mask, [i \in 1..Len(mask) |-> <<mask[i][1]>>])

\* Sequence.expand_attention_mask
expand_attention_mask(mask) ==
  ConcatColumn(mask, [i \in 1..Len(mask) |-> <<1>>])

(***************************************************************************)
(* Pieces of Sequence.__call__                                             *)
(***************************************************************************)
\* token_ids.shape[:-1] after squeeze(0): a single prompt has no batch axis
OrigBatchShape(enc) == IF Len(enc) = 1 THEN <<>> ELSE <<Len(enc)>>

\* torch.broadcast_to(x, (samples,) + x.shape)
BroadcastTo(x, n) == [s \in 1..n |-> x]

\* faulty variant of Reshape: the prompt axis is flattened as the outer one
ReshapePromptMajor(x, batch) ==
  [i \in 1..batch |->
     x[((i - 1) % Len(x)) + 1][((i - 1) \div Len(x)) + 1]]

\* x.reshape((batch, width)) of a (samples, prompts, width) tensor: row-major
Reshape(x, batch) ==
  [i \in 1..batch |->
     x[((i - 1) \div Len(x[1])) + 1][((i - 1) % Len(x[1])) + 1]]

\* faulty variant of ResolveRng: a fresh generator is seeded in every case
ResolveRngFresh(rngArg, fresh) == fresh

\* rng is None: a freshly seeded generator; otherwise the caller's
ResolveRng(rngArg, fresh) == IF rngArg = NoRng THEN fresh ELSE rngArg

\* faulty variant of ShouldBreak: the budget stops the loop only once it is exceeded
ShouldBreakStrict(fin, ngen, maxtok) ==
  All(fin) \/ (maxtok # None /\ ngen > maxtok)

\* faulty variant of ShouldBreak: only the budget stops the loop
ShouldBreakBudget(fin, ngen, maxtok) == maxtok # None /\ ngen = maxtok

\* faulty variant of ShouldBreak: an absent budget counts as a budget of one token
ShouldBreakDefault(fin, ngen, maxtok) ==
  All(fin) \/ ngen = (IF maxtok = None THEN 1 ELSE maxtok)

\* the loop's stop test
ShouldBreak(fin, ngen, maxtok) ==
  All(fin) \/ (maxtok # None /\ ngen = maxtok)

\* faulty variant of AppendTokens: the new column goes in front
PrependTokens(tok, col) == [i \in 1..Len(tok) |-> col[i] \o tok[i]]

\* token_ids = torch.concatenate([token_ids, next_token_ids], axis=-1)
AppendTokens(tok, col) == ConcatColumn(tok, col)

\* faulty variant of Scatter: the sampled tokens go to the first rows of the batch
ScatterLeading(batch, mask, vals) ==
  [i \in 1..batch |-> IF i <= Len(vals) THEN vals[i] ELSE <<PadTokenId>>]

\* torch.full((batch, 1), pad) then next_token_ids[mask] = vals
Scatter(batch, mask, vals) ==
  MaskAssign([i \in 1..batch |-> <<PadTokenId>>], mask, vals)

\* faulty variant of UpdateFinished: the flags are rebuilt from this iteration's answer
UpdateFinishedFresh(fin, mask, local) ==
  MaskAssign([i \in 1..Len(fin) |-> FALSE], mask, local)

\* is_finished[is_not_finished] = local_is_finished
UpdateFinished(fin, mask, local) == MaskAssign(fin, mask, local)

\* faulty variant of PruneState: the state is handed on unpruned
PruneStateKeepAll(pkv, local) == pkv

\* faulty variant of PruneState: as many rows as remain active, taken from the top
PruneStateLeading(pkv, local) ==
  [present |-> TRUE, rows |-> SubSeq(pkv.rows, 1, Count(Not(local)))]

\* tuple(tuple(vv[~local_is_finished] for vv in v) for v in past_key_values)
PruneState(pkv, local) ==
  [present |-> TRUE, rows |-> MaskSelect(pkv.rows, Not(local))]

\* if past_key_values: unfinished_past_key_values = pruned
NextState(old, pkv, local) ==
  IF pkv.present THEN PruneState(pkv, local) ELSE old

\* the value returned after decode and postprocess_completions
postprocess_completions(completions) == completions

\* faulty variant of ReturnValue: the sequence is returned whatever its length
ReturnValueList(tok, npt) ==
  [kind |-> "list",
   value |-> postprocess_completions(Decode(ColumnsFrom(tok, npt)))]

ReturnValue(tok, npt) ==
  LET res == postprocess_completions(Decode(ColumnsFrom(tok, npt)))
  IN IF Len(res) = 1 THEN [kind |-> "str", value |-> <<res[1]>>]
     ELSE [kind |-> "list", value |-> res]

(***************************************************************************)
(* State                                                                   *)
(***************************************************************************)
VARIABLES
  pc,             \* "idle", "loop", "done", "error"
  max_tokens,     \* self.max_tokens
  model_kind,     \* which model the Sequence was built with
  hook,           \* "base": is_finished not overridden; "override"
  samples,        \* argument samples
  orig_batch_shape,
  rng,            \* the generator in use
  num_prompt_tokens,
  batch_size,
  token_ids,
  attention_mask,
  is_finished,
  unfinished_past_key_values,
  calls,          \* how often forward, torch.rand and is_finished were called
  result,         \* the returned value
  error,          \* the exception that ended the invocation
  passed,         \* what the last iteration passed to and got from its collaborators
  env,            \* SpecDet: the deterministic model and termination predicate
  args,           \* SpecDet: the arguments of the running invocation
  trace,          \* SpecDet: the token matrix after setup and after each iteration
  prev,           \* SpecDet: arguments, trace and result of the first invocation
  vc_pc,          \* SpecChoice: "ready", "done"
  vc_p,           \* SpecChoice: argument p
  vc_samples,     \* SpecChoice: argument samples
  vc_rng,         \* SpecChoice: argument rng
  vc_idx          \* SpecChoice: the returned index tensor

loopvars ==
  <<pc, max_tokens, model_kind, hook, samples, orig_batch_shape, rng,
    num_prompt_tokens, batch_size, token_ids, attention_mask, is_finished,
    unfinished_past_key_values, calls, result, error, passed>>

detvars == <<env, args, trace, prev>>

choicevars == <<vc_pc, vc_p, vc_samples, vc_rng, vc_idx>>

vars == <<loopvars, detvars, choicevars>>

NoResult == [kind |-> "none", value |-> <<>>]

\* no iteration yet: nothing was passed to the model or to is_finished
NoPassed == [tok |-> <<>>, mask |-> <<>>, past |-> NoState, gen |-> <<>>]

NumGenerated == IF token_ids = <<>> THEN 0 ELSE Len(token_ids[1]) - num_prompt_tokens

\* state after Sequence.__init__
InitLoop ==
  /\ pc = "idle"
  /\ max_tokens \in {None} \cup 0..MaxTokens
  /\ model_kind \in ModelKinds
  /\ hook \in {"base", "override"}
  /\ samples = 0
  /\ orig_batch_shape = <<>>
  /\ rng = NoRng
  /\ num_prompt_tokens = 0
  /\ batch_size = 0
  /\ token_ids = <<>>
  /\ attention_mask = <<>>
  /\ is_finished = <<>>
  /\ unfinished_past_key_values = NoState
  /\ calls = [forward |-> 0, rand |-> 0, pred |-> 0]
  /\ result = NoResult
  /\ error = "none"
  /\ passed = NoPassed

NoArgs == [np |-> 0, n |-> 0, rngArg |-> NoRng]

NoPrev == [valid |-> FALSE, args |-> NoArgs, trace |-> <<>>, result |-> NoResult]

NoEnv == [model |-> "any", stop |-> "any"]

DetOff ==
  /\ env = NoEnv
  /\ args = NoArgs
  /\ trace = <<>>
  /\ prev = NoPrev

ChoiceOff ==
  /\ vc_pc = "off"
  /\ vc_p = <<>>
  /\ vc_samples = 0
  /\ vc_rng = NoRng
  /\ vc_idx = <<>>

Init == InitLoop /\ DetOff /\ ChoiceOff

\* Sequence.__call__ up to the loop
Enter(prompts, n, rngArg, freshSeed) ==
  LET enc == Encode(prompts)
      batch == n * Prod(OrigBatchShape(enc.token_ids))
      npt == Len(enc.token_ids[1])
  IN /\ rng' = ResolveRng(rngArg, GeneratorOf(freshSeed))
     /\ samples' = n
     /\ orig_batch_shape' = OrigBatchShape(enc.token_ids)
     /\ num_prompt_tokens' = npt
     /\ batch_size' = batch
     /\ token_ids' = Reshape(BroadcastTo(enc.token_ids, n), batch)
     /\ attention_mask' = Reshape(BroadcastTo(enc.attention_mask, n), batch)
     /\ is_finished' = [i \in 1..batch |-> FALSE]
     /\ unfinished_past_key_values' = NoState
     /\ calls' = [forward |-> 0, rand |-> 0, pred |-> 0]
     /\ result' = NoResult
     /\ error' = "none"
     /\ passed' = NoPassed
     /\ pc' = "loop"
     /\ UNCHANGED <<max_tokens, model_kind, hook>>

Call ==
  /\ pc = "idle"
  /\ \E np \in 1..MaxPrompts, n \in 1..MaxSamples,
        rngArg \in {NoRng} \cup {GeneratorOf(s) : s \in Seeds}, freshSeed \in Seeds :
       /\ np * n <= MaxBatch
       /\ Enter(Prompts(np), n, rngArg, freshSeed)

\* faulty variant of BaseIsFinishedRaises: the base predicate answers instead of raising
BaseIsFinishedAnswers(h) == FALSE

\* Sequence.is_finished raises NotImplementedError unless a subclass overrides it
BaseIsFinishedRaises(h) == h = "base"

\* the loop may run one more iteration (stop test false; cap of the model)
CanIterate ==
  /\ pc = "loop"
  /\ ~ShouldBreak(is_finished, NumGenerated, max_tokens)
  /\ batch_size * (NumGenerated + 1) <= MaxCells

\* one full iteration with a model that answers `logits` and a termination
\* predicate that answers `local`
Body(logits, local) ==
  LET is_not_finished == Not(is_finished)
      unfinished_token_ids == MaskSelect(token_ids, is_not_finished)
      unfinished_attention_mask == MaskSelect(attention_mask, is_not_finished)
      fwd == Forward(model_kind, unfinished_token_ids, unfinished_attention_mask,
                     unfinished_past_key_values, logits)
      st == step(rng, num_prompt_tokens, unfinished_token_ids,
                 unfinished_attention_mask, 1, unfinished_past_key_values, fwd)
      unfinished_next_token_ids == st.next_token_ids[1]
      next_token_ids == Scatter(batch_size, is_not_finished, unfinished_next_token_ids)
  IN /\ st.ok
     /\ rng' = st.rng
     /\ token_ids' = AppendTokens(token_ids, next_token_ids)
     /\ attention_mask' = expand_attention_mask(attention_mask)
     /\ is_finished' = UpdateFinished(is_finished, is_not_finished, local)
     /\ unfinished_past_key_values' =
          NextState(unfinished_past_key_values, st.past_key_values, local)
     /\ calls' = [forward |-> calls.forward + 1, rand |-> calls.rand + 1,
                  pred |-> calls.pred + 1]
     /\ passed' = [tok |-> unfinished_token_ids, mask |-> unfinished_attention_mask,
                 past |-> unfinished_past_key_values,
                 gen |-> ColumnsFrom(MaskSelect(token_ids', is_not_finished),
                                     num_prompt_tokens)]
     /\ UNCHANGED <<pc, max_tokens, model_kind, hook, samples, orig_batch_shape, num_prompt_tokens,
                    batch_size, result, error>>

Iteration ==
  /\ CanIterate
  /\ ~BaseIsFinishedRaises(hook)
  /\ SameLeadingShape(LogitRowCount(model_kind, Count(Not(is_finished))),
                      Count(Not(is_finished)))
  /\ \E logits \in [1..LogitRowCount(model_kind, Count(Not(is_finished))) -> LogitRows],
        local \in [1..Count(Not(is_finished)) -> BOOLEAN] :
       Body(logits, local)

\* the model's logits have another row count than the tokens: the assertion
\* of step fails before anything is sampled
IterationAssertionError ==
  /\ CanIterate
  /\ ~SameLeadingShape(LogitRowCount(model_kind, Count(Not(is_finished))),
                       Count(Not(is_finished)))
  /\ \E logits \in [1..LogitRowCount(model_kind, Count(Not(is_finished))) -> LogitRows] :
       LET is_not_finished == Not(is_finished)
           unfinished_token_ids == MaskSelect(token_ids, is_not_finished)
           unfinished_attention_mask == MaskSelect(attention_mask, is_not_finished)
           fwd == Forward(model_kind, unfinished_token_ids, unfinished_attention_mask,
                          unfinished_past_key_values, logits)
           st == step(rng, num_prompt_tokens, unfinished_token_ids,
                      unfinished_attention_mask, 1, unfinished_past_key_values, fwd)
       IN /\ ~st.ok
          /\ pc' = "error"
          /\ error' = "AssertionError"
          /\ calls' = [calls EXCEPT !.forward = @ + 1]
          /\ passed' = [tok |-> unfinished_token_ids, mask |-> unfinished_attention_mask,
                      past |-> unfinished_past_key_values,
                      gen |-> <<>>]
          /\ UNCHANGED <<max_tokens, model_kind, hook, samples, orig_batch_shape, rng,
                         num_prompt_tokens, batch_size, token_ids, attention_mask,
                         is_finished, unfinished_past_key_values, result>>

\* the base Sequence.is_finished raises after the column was appended
IterationNotImplemented ==
  /\ CanIterate
  /\ BaseIsFinishedRaises(hook)
  /\ SameLeadingShape(LogitRowCount(model_kind, Count(Not(is_finished))),
                      Count(Not(is_finished)))
  /\ \E logits \in [1..LogitRowCount(model_kind, Count(Not(is_finished))) -> LogitRows] :
       LET is_not_finished == Not(is_finished)
           unfinished_token_ids == MaskSelect(token_ids, is_not_finished)
           unfinished_attention_mask == MaskSelect(attention_mask, is_not_finished)
           fwd == Forward(model_kind, unfinished_token_ids, unfinished_attention_mask,
                          unfinished_past_key_values, logits)
           st == step(rng, num_prompt_tokens, unfinished_token_ids,
                      unfinished_attention_mask, 1, unfinished_past_key_values, fwd)
           next_token_ids == Scatter(batch_size, is_not_finished, st.next_token_ids[1])
       IN /\ st.ok
          /\ rng' = st.rng
          /\ token_ids' = AppendTokens(token_ids, next_token_ids)
          /\ attention_mask' = expand_attention_mask(attention_mask)
          /\ pc' = "error"
          /\ error' = "NotImplementedError"
          /\ calls' = [forward |-> calls.forward + 1, rand |-> calls.rand + 1,
                       pred |-> calls.pred + 1]
          /\ passed' = [tok |-> unfinished_token_ids, mask |-> unfinished_attention_mask,
                      past |-> unfinished_past_key_values,
                      gen |-> ColumnsFrom(MaskSelect(token_ids', is_not_finished),
                                          num_prompt_tokens)]
          /\ UNCHANGED <<max_tokens, model_kind, hook, samples, orig_batch_shape, num_prompt_tokens,
                         batch_size, is_finished, unfinished_past_key_values, result>>

\* the stop test holds: break, decode the generated suffix, return
Return ==
  /\ pc = "loop"
  /\ ShouldBreak(is_finished, NumGenerated, max_tokens)
  /\ result' = ReturnValue(token_ids, num_prompt_tokens)
  /\ pc' = "done"
  /\ UNCHANGED <<max_tokens, model_kind, hook, samples, orig_batch_shape, rng, num_prompt_tokens,
                 batch_size, token_ids, attention_mask, is_finished,
                 unfinished_past_key_values, calls, error, passed>>

Next ==
  \/ Call /\ UNCHANGED <<detvars, choicevars>>
  \/ Iteration /\ UNCHANGED <<detvars, choicevars>>
  \/ IterationAssertionError /\ UNCHANGED <<detvars, choicevars>>
  \/ IterationNotImplemented /\ UNCHANGED <<detvars, choicevars>>
  \/ Return /\ UNCHANGED <<detvars, choicevars>>

Spec == Init /\ [][Next]_vars

(***************************************************************************)
(* SpecDet: one Sequence object invoked twice, with a deterministic model  *)
(* and a deterministic termination predicate.  The first invocation's      *)
(* arguments, token matrices and result are kept in prev.                  *)
(***************************************************************************)
DetModels == {"flat", "echo", "flip"}

DetStops == {"pad", "never", "second"}

\* a deterministic model.forward: the logits of a row depend on its last token
DetLogits(m, tok) ==
  [i \in 1..Len(tok) |->
     LET last == tok[i][Len(tok[i])]
         hot == IF m = "echo" THEN last ELSE (last + 1) % VocabSize
     IN [v \in 1..VocabSize |->
           IF m = "flat" \/ v - 1 = hot THEN 0 ELSE NegInf]]

\* a deterministic override of Sequence.is_finished on the generated suffixes
DetFinished(k, gen) ==
  [i \in 1..Len(gen) |->
     CASE k = "pad" -> gen[i][Len(gen[i])] = PadTokenId
       [] k = "second" -> Len(gen[i]) >= 2
       [] OTHER -> FALSE]

InitDetLoop ==
  /\ pc = "idle"
  /\ max_tokens \in {None, MaxTokens}
  /\ model_kind \in {"kv", "nokv"}
  /\ hook = "override"
  /\ samples = 0
  /\ orig_batch_shape = <<>>
  /\ rng = NoRng
  /\ num_prompt_tokens = 0
  /\ batch_size = 0
  /\ token_ids = <<>>
  /\ attention_mask = <<>>
  /\ is_finished = <<>>
  /\ unfinished_past_key_values = NoState
  /\ calls = [forward |-> 0, rand |-> 0, pred |-> 0]
  /\ result = NoResult
  /\ error = "none"
  /\ passed = NoPassed
  /\ env \in [model : DetModels, stop : DetStops]
  /\ args = NoArgs
  /\ trace = <<>>
  /\ prev = NoPrev

EnterDet ==
  \E np \in 1..MaxPrompts, n \in 1..MaxSamples,
     rngArg \in {NoRng} \cup {GeneratorOf(s) : s \in Seeds}, freshSeed \in Seeds :
    /\ np * n <= MaxBatch
    /\ Enter(Prompts(np), n, rngArg, freshSeed)
    /\ args' = [np |-> np, n |-> n, rngArg |-> rngArg]
    /\ trace' = <<token_ids'>>

FirstCall ==
  /\ pc = "idle"
  /\ EnterDet
  /\ UNCHANGED <<env, prev>>

\* the same object is invoked again after the first invocation has returned
SecondCall ==
  /\ pc = "done"
  /\ ~prev.valid
  /\ EnterDet
  /\ prev' = [valid |-> TRUE, args |-> args, trace |-> trace, result |-> result]
  /\ UNCHANGED env

IterationDet ==
  /\ CanIterate
  /\ Body(DetLogits(env.model, MaskSelect(token_ids, Not(is_finished))),
          DetFinished(env.stop,
                      ColumnsFrom(MaskSelect(token_ids', Not(is_finished)),
                                  num_prompt_tokens)))
  /\ trace' = Append(trace, token_ids')
  /\ UNCHANGED <<env, args, prev>>

ReturnDet == Return /\ UNCHANGED detvars

NextDet ==
  \/ FirstCall /\ UNCHANGED choicevars
  \/ SecondCall /\ UNCHANGED choicevars
  \/ IterationDet /\ UNCHANGED choicevars
  \/ ReturnDet /\ UNCHANGED choicevars

InitDet == InitDetLoop /\ ChoiceOff

SpecDet == InitDet /\ [][NextDet]_vars

(***************************************************************************)
(* SpecChoice: vectorized_random_choice on its own.  The inputs are every  *)
(* normalized probability tensor of shape (k, vocab) on the grid, every    *)
(* sample count and every seeded generator.                                *)
(***************************************************************************)
\* the rows of v non-negative entries that sum to 1
NormalizedRows(v) ==
  {[num |-> w, den |-> Grid] : w \in {x \in [1..v -> 0..Grid] : Sum(x) = Grid}}

InitChoiceArgs ==
  /\ vc_pc = "ready"
  /\ \E v \in 1..MaxVocab, k \in 1..MaxRows : vc_p \in [1..k -> NormalizedRows(v)]
  /\ vc_samples \in 1..MaxDraws
  /\ vc_rng \in {GeneratorOf(s) : s \in Seeds}
  /\ vc_idx = <<>>

LoopOff ==
  /\ pc = "off"
  /\ max_tokens = None
  /\ model_kind = "kv"
  /\ hook = "override"
  /\ samples = 0
  /\ orig_batch_shape = <<>>
  /\ rng = NoRng
  /\ num_prompt_tokens = 0
  /\ batch_size = 0
  /\ token_ids = <<>>
  /\ attention_mask = <<>>
  /\ is_finished = <<>>
  /\ unfinished_past_key_values = NoState
  /\ calls = [forward |-> 0, rand |-> 0, pred |-> 0]
  /\ result = NoResult
  /\ error = "none"
  /\ passed = NoPassed

Choose ==
  /\ vc_pc = "ready"
  /\ LET ch == vectorized_random_choice(vc_rng, vc_p, vc_samples)
     IN /\ vc_idx' = ch.idx
        /\ vc_rng' = ch.rng
  /\ vc_pc' = "done"
  /\ UNCHANGED <<vc_p, vc_samples>>

NextChoice == Choose /\ UNCHANGED <<loopvars, detvars>>

InitChoice == InitChoiceArgs /\ LoopOff /\ DetOff

SpecChoice == InitChoice /\ [][NextChoice]_vars

\* row is concentrated on position j: probability 1 there, 0 elsewhere
OneHotAt(row, j) ==
  \A i \in 1..Len(row.num) : row.num[i] = (IF i = j THEN row.den ELSE 0)

\* C4: for a one-row distribution with probability 1 at index j, every sample
\* returned by vectorized_random_choice equals j, for every sample count and
\* every draw in [0,1), the draw 0 included.
C4_OneHotReturnsIndex ==
  (vc_pc = "done" /\ Len(vc_p) = 1) =>
    \A j \in 1..Len(vc_p[1].num) :
      OneHotAt(vc_p[1], j) =>
        \A s \in 1..vc_samples : vc_idx[s][1] = j - 1

\* C5: for every normalized p of shape (k, vocab), every sample count n and
\* every draw in [0,1), the result has shape (n, k) and every entry lies in
\* [0, vocab).
C5_IndicesInRange ==
  vc_pc = "done" =>
    /\ Len(vc_idx) = vc_samples
    /\ \A s \in 1..vc_samples :
         /\ Len(vc_idx[s]) = Len(vc_p)
         /\ \A j \in 1..Len(vc_p) :
              vc_idx[s][j] \in 0..(Len(vc_p[j].num) - 1)

\* C5 witness: several samples of several distributions over more than one
\* category were drawn and the last category was returned for one of them
C5_Witness ==
  /\ vc_pc = "done"
  /\ vc_samples > 1
  /\ Len(vc_p) > 1
  /\ \E s \in 1..vc_samples, j \in 1..Len(vc_p) :
       /\ Len(vc_p[j].num) > 2
       /\ vc_p[j].num[Len(vc_p[j].num)] < vc_p[j].den
       /\ vc_idx[s][j] = Len(vc_p[j].num) - 1

(***************************************************************************)
(* Properties of the loop (Spec)                                           *)
(***************************************************************************)
Running == pc \in {"loop", "done", "error"}

\* uniform draws taken from the generator since the invocation began
DrawsUsed == StreamLen - Len(rng)

NumPrompts == Prod(orig_batch_shape)

\* the prompt columns of batch row i are the encoding of prompt number q
RowHoldsPrompt(i, q) ==
  LET enc == Encode(Prompts(NumPrompts))
  IN /\ SubSeq(token_ids[i], 1, num_prompt_tokens) = enc.token_ids[q]
     /\ SubSeq(attention_mask[i], 1, num_prompt_tokens) = enc.attention_mask[q]

\* C1: the finished flags are all false before the first iteration, and a
\* flag that is true stays true in every later step, whatever the
\* termination predicate answers.
C1_FinishedMonotonic ==
  /\ []((pc = "loop" /\ NumGenerated = 0) =>
          \A r \in 1..batch_size : ~is_finished[r])
  /\ [][pc = "loop" =>
          \A r \in 1..batch_size : is_finished[r] => is_finished'[r]]_vars

\* C1 witness: of two rows one finished in the first iteration (the second
\* iteration drew for one row only) and its flag is still set afterwards
C1_Witness ==
  /\ Running
  /\ batch_size = 2
  /\ NumGenerated = 2
  /\ DrawsUsed = 3
  /\ \E r \in 1..batch_size : is_finished[r]

\* C2: with a model that returns a state on every forward call, the state
\* handed to the next forward call has exactly as many rows as there are
\* unfinished rows, and no state is handed to the first forward call.
C2_StateRowsMatchActive ==
  (pc \in {"loop", "done"} /\ model_kind = "kv") =>
    IF calls.forward = 0
    THEN ~unfinished_past_key_values.present
    ELSE /\ unfinished_past_key_values.present
         /\ Len(unfinished_past_key_values.rows) = Count(Not(is_finished))

\* C2 witness: after two iterations some rows are finished, others are not,
\* and a state is held for the next forward call
C2_Witness ==
  /\ pc = "loop"
  /\ model_kind = "kv"
  /\ calls.forward = 2
  /\ batch_size >= 2
  /\ Count(is_finished) >= 1
  /\ Count(Not(is_finished)) >= 1
  /\ unfinished_past_key_values.present

\* C3 as stated: P*S > 1 completions are returned prompt-major, the one of
\* prompt p and sample s (0-based) at position p*S + s.
C3_PromptMajor ==
  (pc = "done" /\ batch_size > 1) =>
    /\ result.kind = "list"
    /\ Len(result.value) = NumPrompts * samples
    /\ \A q \in 1..NumPrompts, s \in 1..samples :
         LET i == (q - 1) * samples + s
         IN /\ RowHoldsPrompt(i, q)
            /\ result.value[i] = Decode(ColumnsFrom(token_ids, num_prompt_tokens))[i]

\* C3 amended: P*S > 1 completions are returned sample-major, the one of
\* prompt p and sample s (0-based) at position s*P + p.
C3_SampleMajor ==
  (pc = "done" /\ batch_size > 1) =>
    /\ result.kind = "list"
    /\ Len(result.value) = NumPrompts * samples
    /\ \A q \in 1..NumPrompts, s \in 1..samples :
         LET i == (s - 1) * NumPrompts + q
         IN /\ RowHoldsPrompt(i, q)
            /\ result.value[i] = Decode(ColumnsFrom(token_ids, num_prompt_tokens))[i]

\* C3 witness: two prompts with two samples each were completed
C3_Witness ==
  /\ pc = "done"
  /\ NumPrompts = 2
  /\ samples = 2
  /\ NumGenerated >= 1
  /\ Len(result.value) = 4

\* the token matrix and mask as they are before the first iteration
PromptMatrix ==
  LET enc == Encode(Prompts(NumPrompts))
  IN [token_ids |-> Reshape(BroadcastTo(enc.token_ids, samples), batch_size),
      attention_mask |-> Reshape(BroadcastTo(enc.attention_mask, samples), batch_size)]

C8_TokenBudget ==
  /\ []((Running /\ max_tokens # None) =>
          /\ NumGenerated <= max_tokens
          /\ calls.forward <= max_tokens)
  /\ [][(pc = "loop" /\ calls'.forward # calls.forward) =>
          ~ShouldBreak(is_finished, NumGenerated, max_tokens)]_vars

\* C8 witness: the budget ended the loop while a row was still unfinished
C8_Witness ==
  /\ pc = "done"
  /\ max_tokens >= 2
  /\ NumGenerated = max_tokens
  /\ calls.forward = max_tokens
  /\ ~All(is_finished)

\* C9: token matrix and attention mask both have batch_size = samples *
\* prompts rows and the same number of columns, num_prompt_tokens plus the
\* number of iterations executed.
C9_SameShape ==
  Running =>
    /\ batch_size = samples * NumPrompts
    /\ Len(token_ids) = batch_size
    /\ Len(attention_mask) = batch_size
    /\ \A r \in 1..batch_size :
         /\ Len(token_ids[r]) = num_prompt_tokens + calls.pred
         /\ Len(attention_mask[r]) = num_prompt_tokens + calls.pred

\* C9 witness: two iterations were executed on a batch with a finished row
C9_Witness ==
  /\ pc = "loop"
  /\ calls.pred = 2
  /\ batch_size >= 2
  /\ Count(is_finished) >= 1

\* C10: an iteration never changes a column that exists already, of any
\* row; in particular a finished row keeps its content up to the column at
\* which it finished.
C10_ColumnsFrozen ==
  [][pc = "loop" =>
       \A r \in 1..batch_size :
         SubSeq(token_ids'[r], 1, Len(token_ids[r])) = token_ids[r]]_vars

\* C10 witness: a row finished in the first iteration and a second
\* iteration has appended a column since
C10_Witness ==
  /\ pc = "loop"
  /\ batch_size = 2
  /\ NumGenerated = 2
  /\ DrawsUsed = 3
  /\ Count(is_finished) >= 1

(***************************************************************************)
(* Properties of repeated invocations (SpecDet)                            *)
(***************************************************************************)
\* C6: a second invocation with the same prompts, the same sample count and
\* a generator that yields the same draws, on the same deterministic model
\* and termination predicate, has the same token matrix as the first after
\* every iteration, and returns the same completions.
C6_Determinism ==
  (prev.valid /\ pc \in {"loop", "done"} /\ args = prev.args
     /\ args.rngArg # NoRng) =>
    /\ Len(trace) <= Len(prev.trace)
    /\ \A t \in 1..Len(trace) : trace[t] = prev.trace[t]
    /\ pc = "done" => (trace = prev.trace /\ result = prev.result)

\* C6 witness: both invocations ran two iterations or more on several rows
\* with the same arguments and seed, and sampled tokens that differ
C6_Witness ==
  /\ prev.valid
  /\ pc = "done"
  /\ args = prev.args
  /\ args.rngArg # NoRng
  /\ batch_size >= 2
  /\ NumGenerated >= 2
  /\ \E r \in 1..batch_size, c \in 1..NumGenerated :
       token_ids[r][num_prompt_tokens + c] # token_ids[1][num_prompt_tokens + 1]

(***************************************************************************)
(* Properties of the iteration (SpecDet, Spec)                             *)
(***************************************************************************)
\* an iteration that appended a column has just been taken
Appended == pc = "loop" /\ NumGenerated' = NumGenerated + 1

\* the last entry of a row
LastOf(row) == row[Len(row)]

\* the position of batch row r among the rows flagged in mask
RankIn(mask, r) == Cardinality({q \in 1..r : mask[q]})

\* C11: the column appended by an iteration holds the padding token for every
\* row that was finished before the iteration and, for the k-th active row in
\* ascending row order, the token sampled with the k-th draw from the k-th row
\* of the scores the model returned for the active slice
C11_ScatterColumn ==
  [][Appended =>
       \A r \in 1..batch_size :
         IF is_finished[r]
         THEN LastOf(token_ids'[r]) = PadTokenId
         ELSE LET k == RankIn(Not(is_finished), r)
                  scores == DetLogits(env.model, passed'.tok)
                  probs == Softmax(scores[k])
                  u == rng[k]
              IN LastOf(token_ids'[r]) = CountBelow(Cumsum(probs.num), probs.den, u)]_vars

\* a row finished in the first iteration holds the padding token in the second
\* column while the row below it, still active, was given another token
C11_Witness ==
  /\ pc = "loop"
  /\ batch_size = 2
  /\ NumGenerated = 2
  /\ DrawsUsed = 3
  /\ env.model = "flat"
  /\ env.stop = "pad"
  /\ token_ids[1][num_prompt_tokens + 1] = PadTokenId
  /\ token_ids[1][num_prompt_tokens + 2] = PadTokenId
  /\ token_ids[2][num_prompt_tokens + 1] # PadTokenId
  /\ token_ids[2][num_prompt_tokens + 2] # PadTokenId

\* the batch rows that are active when an iteration starts
ActiveRows == {r \in 1..batch_size : ~is_finished[r]}

\* C12: at every forward call the token rows and the mask rows passed to the
\* model are exactly the rows whose is_finished flag is false, in ascending row
\* order, and the termination predicate is called on the generated suffixes
\* of those rows only; with C1 a finished row is never part of the slice again
C12_ActiveSlice ==
  [][calls'.forward = calls.forward + 1 =>
       /\ Len(passed'.tok) = Cardinality(ActiveRows)
       /\ Len(passed'.mask) = Cardinality(ActiveRows)
       /\ \A r \in ActiveRows :
            /\ passed'.tok[RankIn(Not(is_finished), r)] = token_ids[r]
            /\ passed'.mask[RankIn(Not(is_finished), r)] = attention_mask[r]
       /\ calls'.pred = calls.pred + 1 =>
            /\ Len(passed'.gen) = Cardinality(ActiveRows)
            /\ \A r \in ActiveRows :
                 passed'.gen[RankIn(Not(is_finished), r)] =
                   SubSeq(token_ids'[r], num_prompt_tokens + 1, Len(token_ids'[r]))]_vars

\* the second forward call of a batch of two got the second row only, the
\* first row being finished and holding other tokens
C12_Witness ==
  /\ pc = "loop"
  /\ batch_size = 2
  /\ calls.forward = 2
  /\ calls.pred = 2
  /\ is_finished[1]
  /\ Len(passed.tok) = 1
  /\ passed.tok[1] = SubSeq(token_ids[2], 1, Len(token_ids[2]) - 1)
  /\ passed.tok[1] # SubSeq(token_ids[1], 1, Len(token_ids[1]) - 1)
  /\ Len(passed.gen) = 1

\* C13: the invocation returns a single string exactly when samples times the
\* number of prompts is 1, and otherwise a sequence of exactly that many
\* strings, the i-th being the decoded generated suffix of batch row i
C13_ReturnShape ==
  pc = "done" =>
    /\ batch_size = samples * NumPrompts
    /\ (result.kind = "str") <=> (samples * NumPrompts = 1)
    /\ (result.kind = "list") <=> (samples * NumPrompts > 1)
    /\ Len(result.value) = samples * NumPrompts
    /\ \A i \in 1..batch_size :
         result.value[i] = Decode(ColumnsFrom(token_ids, num_prompt_tokens))[i]

\* one prompt and one sample returned a single string of generated tokens
C13_Witness ==
  /\ pc = "done"
  /\ samples = 1
  /\ NumPrompts = 1
  /\ NumGenerated >= 1
  /\ result.kind = "str"
  /\ Len(result.value[1]) = NumGenerated

\* C14: the loop stops as soon as every row is finished.  No step from a loop
\* state whose rows are all finished is a forward call: the only step is the
\* return.  Hence when the predicate answered true for every row after the
\* first generated token, the invocation made exactly one forward call and
\* returned one string per row, each of exactly one generated token; with
\* three samples of one prompt that is a sequence of three such strings
C14_StopsWhenAllFinished ==
  /\ [][(pc = "loop" /\ All(is_finished)) =>
          (pc' = "done" /\ calls' = calls /\ token_ids' = token_ids)]_vars
  /\ [](pc = "done" /\ calls.pred = 1 /\ All(is_finished) =>
          /\ calls.forward = 1
          /\ NumGenerated = 1
          /\ Len(result.value) = batch_size
          /\ \A i \in 1..batch_size : Len(result.value[i]) = 1
          /\ (samples = 3 /\ NumPrompts = 1) =>
               (result.kind = "list" /\ Len(result.value) = 3))

\* three samples of one prompt all finished after their first token, with a
\* budget that would have allowed more, and the invocation has returned
C14_Witness ==
  /\ pc = "done"
  /\ samples = 3
  /\ NumPrompts = 1
  /\ max_tokens \in {None, MaxTokens}
  /\ calls.forward = 1
  /\ All(is_finished)
  /\ result.kind = "list"
  /\ Len(result.value) = 3
  /\ \A i \in 1..3 : Len(result.value[i]) = 1

\* the model returns as many score rows as it is given token rows
Aligned == \A n \in 0..MaxBatch : LogitRowCount(model_kind, n) = n

\* C15 as stated: an invocation of a Sequence that does not override
\* is_finished never returns completions and ends with NotImplementedError only
C15_AlwaysFatal ==
  (hook = "base" /\ pc \in {"done", "error"}) =>
    (pc = "error" /\ error = "NotImplementedError" /\ result = NoResult)

\* C15, amended: without an override the predicate is called at most once and
\* that call ends the invocation with NotImplementedError and no completions;
\* from a loop state with a budget other than 0 and an aligned model the only
\* step is that abort.  The invocation returns normally only with a budget of
\* 0, where the predicate is never called, and an assertion failure of step
\* comes before the predicate
C15_BaseHookFatal ==
  /\ [](hook = "base" =>
          /\ calls.pred <= 1
          /\ calls.pred = 1 =>
               (pc = "error" /\ error = "NotImplementedError" /\ result = NoResult)
          /\ pc = "done" => (max_tokens = 0 /\ calls.forward = 0)
          /\ (pc = "error" /\ error # "NotImplementedError") =>
               (error = "AssertionError" /\ ~Aligned /\ calls.pred = 0))
  /\ [][(pc = "loop" /\ hook = "base" /\ max_tokens # 0 /\ Aligned) =>
          (pc' = "error" /\ error' = "NotImplementedError" /\ result' = NoResult)]_vars

\* the first iteration of a Sequence without override called the predicate
\* and the invocation ended with NotImplementedError
C15_Witness ==
  /\ hook = "base"
  /\ pc = "error"
  /\ error = "NotImplementedError"
  /\ calls.pred = 1
  /\ NumGenerated = 1
  /\ result = NoResult

\* C16: every iteration that samples was given scores with as many rows as
\* the token slice.  When the model returns another row count, the forward
\* call is followed by AssertionError before any draw is taken: no column is
\* appended, the mask and is_finished are not touched, and no completions are
\* returned then or later
C16_ShapeContract ==
  /\ [][Appended =>
          LogitRowCount(model_kind, Len(passed'.tok)) = Len(passed'.tok)]_vars
  /\ [][(pc = "loop" /\ ~Aligned /\ calls'.forward = calls.forward + 1) =>
          /\ pc' = "error"
          /\ error' = "AssertionError"
          /\ rng' = rng
          /\ calls'.rand = calls.rand
          /\ calls'.pred = calls.pred
          /\ token_ids' = token_ids
          /\ attention_mask' = attention_mask
          /\ is_finished' = is_finished
          /\ result' = NoResult]_vars
  /\ []((pc = "error" /\ error = "AssertionError") =>
          (NumGenerated = 0 /\ calls.rand = 0 /\ result = NoResult))
  /\ []((~Aligned /\ pc = "done") => calls.forward = 0)

\* a model that returned one row too many: the first forward call of a batch
\* of two ended the invocation with AssertionError
C16_Witness ==
  /\ pc = "error"
  /\ error = "AssertionError"
  /\ model_kind = "misaligned"
  /\ batch_size = 2
  /\ calls.forward = 1
  /\ Len(passed.tok) = 2
  /\ NumGenerated = 0
  /\ DrawsUsed = 0

\* a loop state without budget in which some row is unfinished, of a Sequence
\* with an overriding predicate and a model that respects the shape contract
Unbounded ==
  /\ pc = "loop"
  /\ max_tokens = None
  /\ ~All(is_finished)
  /\ hook = "override"
  /\ Aligned

\* C17: without a token budget the loop does not return while a row is
\* unfinished and raises nothing: an invocation that has returned has all its
\* rows finished, the stop test is false in such a state, and every step from
\* such a loop state is one more forward call that appends a column and
\* leaves the loop running
C17_NoReturnWhileUnfinished ==
  /\ []((pc = "done" /\ max_tokens = None) => All(is_finished))
  /\ [](Unbounded => ~ShouldBreak(is_finished, NumGenerated, max_tokens))
  /\ [][Unbounded =>
          /\ pc' = "loop"
          /\ error' = "none"
          /\ result' = NoResult
          /\ calls'.forward = calls.forward + 1
          /\ NumGenerated' = NumGenerated + 1]_vars

\* without a budget and with a predicate that has not answered true yet, one
\* row has run through every column the cap allows and the loop has not returned
C17_Witness ==
  /\ Unbounded
  /\ batch_size = 1
  /\ NumGenerated = MaxCells
  /\ calls.forward = MaxCells
  /\ calls.pred = MaxCells
  /\ error = "none"
  /\ result = NoResult

\* C18: every iteration extends the attention mask by one column of 1 for all
\* rows of the batch, finished rows included, and leaves the columns that
\* existed before as they were
C18_MaskExtended ==
  [][(pc = "loop" /\ token_ids' # token_ids) =>
       /\ Len(attention_mask') = batch_size
       /\ \A r \in 1..batch_size :
            /\ Len(attention_mask'[r]) = Len(attention_mask[r]) + 1
            /\ LastOf(attention_mask'[r]) = 1
            /\ SubSeq(attention_mask'[r], 1, Len(attention_mask[r])) = attention_mask[r]]_vars

\* two iterations of a batch of two prompts, the first row finished after the
\* first: both new mask columns are 1 in both rows, the left padding of the
\* first prompt is still masked out
C18_Witness ==
  /\ pc = "loop"
  /\ batch_size = 2
  /\ NumPrompts = 2
  /\ NumGenerated = 2
  /\ DrawsUsed = 3
  /\ is_finished[1]
  /\ attention_mask[1][1] = 0
  /\ \A r \in 1..2 :
       /\ attention_mask[r][num_prompt_tokens + 1] = 1
       /\ attention_mask[r][num_prompt_tokens + 2] = 1

\* C19: with a model that returns its incremental state in every call, the
\* state passed to every forward call after the first has one row per active
\* row, and its k-th row is the state computed for the k-th row of the token
\* slice passed in the same call: the tokens of that row up to the column
\* before the newest one
C19_CacheAligned ==
  (pc \in {"loop", "done", "error"} /\ model_kind = "kv" /\ calls.forward >= 2) =>
    /\ passed.past.present
    /\ Len(passed.past.rows) = Len(passed.tok)
    /\ Len(passed.mask) = Len(passed.tok)
    /\ \A k \in 1..Len(passed.tok) :
         passed.past.rows[k] = SubSeq(passed.tok[k], 1, Len(passed.tok[k]) - 1)

\* three samples, the middle one finished after the first token: the second
\* call got the state rows of the first and the third row, which differ
C19_Witness ==
  /\ pc = "loop"
  /\ model_kind = "kv"
  /\ batch_size = 3
  /\ calls.forward = 2
  /\ is_finished[2]
  /\ Len(passed.tok) = 2
  /\ Len(passed.past.rows) = 2
  /\ passed.tok[1] # passed.tok[2]
  /\ passed.tok[2] = SubSeq(token_ids[3], 1, Len(token_ids[3]) - 1)
  /\ passed.tok[2] # SubSeq(token_ids[2], 1, Len(token_ids[2]) - 1)

(***************************************************************************)
(* Inverse-CDF property of vectorized_random_choice (SpecChoice)           *)
(***************************************************************************)
\* the cumulative sum before category i (0-based), 0 before the first one
CumsumBefore(row, i) == IF i = 0 THEN 0 ELSE Cumsum(row)[i]

\* C20: for every normalized distribution and every draw u in [0,1) the index
\* i returned for the draw is a category of non-zero probability whose
\* cumulative interval contains the draw, cumsum[i-1] <= u < cumsum[i]; a
\* category of probability zero is never returned
C20_InverseCdf ==
  [][(vc_pc = "ready" /\ vc_pc' = "done") =>
       \A s \in 1..vc_samples, j \in 1..Len(vc_p) :
         LET i == vc_idx'[s][j]
             u == vc_rng[(s - 1) * Len(vc_p) + j]
             row == vc_p[j]
         IN /\ i \in 0..(Len(row.num) - 1)
            /\ row.num[i + 1] > 0
            /\ CumsumBefore(row.num, i) * Grid <= u * row.den
            /\ u * row.den < Cumsum(row.num)[i + 1] * Grid]_vars

============================================================================
